---- MODULE Spec2Model ----
(***************************************************************************)
(* A model of the access-control helpers (HasAccess, HasGlobalAccess,      *)
(* ValidateScope, BuildPermissionsMap) of pkg/services/accesscontrol and   *)
(* of the dashboard HTTP handlers of pkg/api/dashboard.go.                 *)
(*                                                                         *)
(* Each group of operations has its own specification over its own         *)
(* variables; the variables of the other groups stay at their idle value.  *)
(***************************************************************************)
EXTENDS Integers, Sequences, FiniteSets, TLC

VARIABLES
    acDisabled,      \* what ac.IsDisabled() returns (the engine's kill switch)
    signedInUser,    \* c.SignedInUser of the current request context
    origUser,        \* history: c.SignedInUser as it was when the request was built
    call,            \* history: what the last helper call did
    helpersCalled,   \* history: the helpers called on the current request context, in order
    scope,           \* the argument of ValidateScope, a sequence of characters
    scopeOutcome,    \* "none" before the call, then "true", "false" or "panic"
    permissions,     \* the argument of BuildPermissionsMap
    permissionsMap,  \* the map it returned
    mapBuilt,        \* whether BuildPermissionsMap has returned
    ctx,             \* the request's middleware.Context: OrgId, UserId, IsSignedIn
    handler,         \* "none", then the dashboard handler that served the request
    response,        \* the Response the handler returned
    events,          \* history: the guardian checks and bus dispatches of the handler, in order
    renders,         \* how many times GraphNG has rendered since it was mounted
    legend,          \* the legend option of the last render
    frame,           \* the aligned frame of the last render: its fields' types
    hasLegend,       \* hasLegend.current, the value the ref holds
    legendItemsRef,  \* legendItemsRef.current
    output           \* what the last render returned or threw

accessVars == <<acDisabled, signedInUser, origUser, call, helpersCalled>>
scopeVars == <<scope, scopeOutcome>>
permVars == <<permissions, permissionsMap, mapBuilt>>
dashVars == <<ctx, handler, response, events>>
graphVars == <<renders, legend, frame, hasLegend, legendItemsRef, output>>
vars == <<accessVars, scopeVars, permVars, dashVars, graphVars>>

(***************************************************************************)
(* Bounds of the model.                                                    *)
(***************************************************************************)
MaxUserId == 2
MaxOrgId == 2
MaxCalls == 3
MaxScopeLen == 4
MaxPerms == 3
MaxDashId == 2
MaxVersion == 2
MaxFields == 2
MaxRenders == 3

(***************************************************************************)
(* Access-control helpers                                                   *)
(***************************************************************************)
Nil == "nil"
LookupError == "LookupError"

\* The sentinel organization of globally assigned permissions.
GlobalOrgID == 0

ROLE_ADMIN == "Admin"
OrgRoles == {"", "Viewer", "Editor", ROLE_ADMIN}
OrgNames == {"", "Main Org."}

\* models.SignedInUser, the fields the helpers read or write and two others.
SignedInUsers ==
    [UserId : 1..MaxUserId, OrgId : 0..MaxOrgId, OrgRole : OrgRoles,
     OrgName : OrgNames, IsGrafanaAdmin : BOOLEAN]

NoUser ==
    [UserId |-> 0, OrgId |-> 0, OrgRole |-> "", OrgName |-> "", IsGrafanaAdmin |-> FALSE]

\* ac.Evaluate's (bool, error): any boolean beside any error.
EvaluateOutcomes == [hasAccess : BOOLEAN, err : {Nil, LookupError}]

\* The legacy predicates a caller hands in as fallback.
ReqGrafanaAdmin(c) == c.IsGrafanaAdmin

ReqOrgAdmin(c) == c.OrgRole = ROLE_ADMIN

Fallbacks == {"ReqGrafanaAdmin", "ReqOrgAdmin"}

ApplyFallback(fallback, c) ==
    IF fallback = "ReqGrafanaAdmin" THEN ReqGrafanaAdmin(c) ELSE ReqOrgAdmin(c)

UsesFallbackInverted(disabled) == ~disabled

\* if ac.IsDisabled() { return fallback(c) }
UsesFallback(disabled) == disabled

GlobalUserCopyKeepsRole(u) == [u EXCEPT !.OrgId = GlobalOrgID, !.OrgName = ""]

\* userCopy := *c.SignedInUser; userCopy.OrgId = GlobalOrgID; ...
GlobalUserCopy(u) ==
    [u EXCEPT !.OrgId = GlobalOrgID, !.OrgRole = "", !.OrgName = ""]

CtxUserAfterGlobalAccessAliased(u) == GlobalUserCopy(u)

\* c.SignedInUser after HasGlobalAccess: the assignments go to userCopy, a
\* copy by value of the struct, so the context's user is as before.
CtxUserAfterGlobalAccess(u) == u

DecideAllowsOnError(outcome) == outcome.hasAccess

\* if err != nil { log; return false }; return hasAccess
Decide(outcome) == IF outcome.err # Nil THEN FALSE ELSE outcome.hasAccess

NoCall ==
    [helper |-> "none", result |-> FALSE, disabled |-> FALSE,
     fallbackCalls |-> 0, fallbackWould |-> FALSE,
     evaluateCalls |-> 0, evalUser |-> NoUser,
     outcome |-> [hasAccess |-> FALSE, err |-> Nil], logged |-> 0]

\* One run of the closure the helper returns. evalUser is the principal it
\* hands to ac.Evaluate; the calls of the fallback and of Evaluate are
\* counted. fallbackWould records what fallback(c) evaluates to, called or not.
HelperCall(helper, disabled, c, evalUser, fallback, outcome) ==
    IF UsesFallback(disabled)
    THEN [helper |-> helper, result |-> ApplyFallback(fallback, c),
          disabled |-> disabled,
          fallbackCalls |-> 1, fallbackWould |-> ApplyFallback(fallback, c),
          evaluateCalls |-> 0, evalUser |-> NoUser,
          outcome |-> NoCall.outcome, logged |-> 0]
    ELSE [helper |-> helper, result |-> Decide(outcome),
          disabled |-> disabled,
          fallbackCalls |-> 0, fallbackWould |-> ApplyFallback(fallback, c),
          evaluateCalls |-> 1, evalUser |-> evalUser,
          outcome |-> outcome, logged |-> IF outcome.err # Nil THEN 1 ELSE 0]

HasGlobalAccess ==
    /\ Len(helpersCalled) < MaxCalls
    /\ \E fallback \in Fallbacks, outcome \in EvaluateOutcomes :
        call' = HelperCall("HasGlobalAccess", acDisabled, signedInUser,
                           GlobalUserCopy(signedInUser), fallback, outcome)
    /\ signedInUser' =
        IF UsesFallback(acDisabled) THEN signedInUser
        ELSE CtxUserAfterGlobalAccess(signedInUser)
    /\ helpersCalled' = Append(helpersCalled, "HasGlobalAccess")
    /\ UNCHANGED <<acDisabled, origUser, scopeVars, permVars, dashVars, graphVars>>

HasAccess ==
    /\ Len(helpersCalled) < MaxCalls
    /\ \E fallback \in Fallbacks, outcome \in EvaluateOutcomes :
        call' = HelperCall("HasAccess", acDisabled, signedInUser,
                           signedInUser, fallback, outcome)
    /\ helpersCalled' = Append(helpersCalled, "HasAccess")
    /\ UNCHANGED <<acDisabled, signedInUser, origUser, scopeVars, permVars, dashVars, graphVars>>

\* C1: fail-closed. With the engine enabled, an error from ac.Evaluate makes
\* HasAccess and HasGlobalAccess return false, whatever boolean came with
\* the error and whatever the fallback would have returned.
C1_FailClosed ==
    (call.helper \in {"HasAccess", "HasGlobalAccess"} /\ ~acDisabled
        /\ call.outcome.err # Nil)
    => call.result = FALSE

C1_Witness ==
    /\ call.helper = "HasGlobalAccess"
    /\ ~acDisabled
    /\ call.evaluateCalls = 1
    /\ call.outcome = [hasAccess |-> TRUE, err |-> LookupError]
    /\ call.fallbackWould = TRUE
    /\ call.result = FALSE
    /\ call.logged = 1

\* C2: kill-switch routing. Disabled: the result is fallback(c) and Evaluate
\* is not called. Enabled: the fallback is not called and the result is what
\* Evaluate decides. Exactly one of the two is invoked, exactly once.
C2_KillSwitchRouting ==
    call.helper \in {"HasAccess", "HasGlobalAccess"} =>
        /\ call.fallbackCalls + call.evaluateCalls = 1
        /\ acDisabled =>
            /\ call.fallbackCalls = 1
            /\ call.evaluateCalls = 0
            /\ call.result = call.fallbackWould
        /\ ~acDisabled =>
            /\ call.fallbackCalls = 0
            /\ call.evaluateCalls = 1
            /\ call.result = (call.outcome.err = Nil /\ call.outcome.hasAccess)

C2_Witness ==
    /\ call.helper = "HasAccess"
    /\ acDisabled
    /\ call.fallbackCalls = 1
    /\ call.evaluateCalls = 0
    /\ call.result = TRUE

\* C3: with the engine enabled, the principal HasGlobalAccess hands to
\* ac.Evaluate has OrgId = GlobalOrgID, empty OrgRole and OrgName, and every
\* other field as in the request's signed-in user.
C3_GlobalPrincipalStripped ==
    (call.helper = "HasGlobalAccess" /\ ~acDisabled) =>
        /\ call.evaluateCalls = 1
        /\ call.evalUser.OrgId = GlobalOrgID
        /\ call.evalUser.OrgRole = ""
        /\ call.evalUser.OrgName = ""
        /\ call.evalUser.UserId = origUser.UserId
        /\ call.evalUser.IsGrafanaAdmin = origUser.IsGrafanaAdmin

C3_Witness ==
    /\ call.helper = "HasGlobalAccess"
    /\ ~acDisabled
    /\ origUser.OrgId = MaxOrgId
    /\ origUser.OrgRole = ROLE_ADMIN
    /\ origUser.OrgName = "Main Org."
    /\ origUser.IsGrafanaAdmin
    /\ call.evalUser.OrgId = GlobalOrgID

\* C4: after any sequence of HasGlobalAccess and HasAccess calls on a request
\* context, c.SignedInUser is as it was when the request was built, and every
\* HasAccess call that reaches ac.Evaluate hands it that identity.
C4_ContextUserUnchanged ==
    /\ signedInUser = origUser
    /\ (call.helper = "HasAccess" /\ call.evaluateCalls = 1)
        => call.evalUser = origUser

C4_Witness ==
    /\ helpersCalled = <<"HasGlobalAccess", "HasAccess">>
    /\ ~acDisabled
    /\ origUser.OrgId = MaxOrgId
    /\ origUser.OrgRole = ROLE_ADMIN
    /\ origUser.OrgName = "Main Org."
    /\ call.evaluateCalls = 1
    /\ call.evalUser = origUser
    /\ signedInUser = origUser

(***************************************************************************)
(* ValidateScope                                                            *)
(***************************************************************************)
ScopeChars == {"a", ":", "/", "*", "?"}

RECURSIVE SeqsUpTo(_, _)
SeqsUpTo(S, n) ==
    IF n = 0 THEN {<<>>}
    ELSE LET shorter == SeqsUpTo(S, n - 1)
         IN shorter \cup {Append(s, x) : s \in {t \in shorter : Len(t) = n - 1}, x \in S}

Scopes == SeqsUpTo(ScopeChars, MaxScopeLen)

ContainsAnyStarOnly(s, chars) == \E i \in 1..Len(s) : s[i] = "*"

\* strings.ContainsAny(s, chars)
ContainsAny(s, chars) == \E i \in 1..Len(s) : s[i] \in chars

\* scope[:len(scope)-1] and scope[len(scope)-1] of an empty string: the
\* slice bound is -1 and the Go runtime panics.
ValidateScopePanics(s) == Len(s) = 0

ValidateScopeOrForAnd(s) ==
    LET prefix == SubSeq(s, 1, Len(s) - 1)
        last == s[Len(s)]
    IN IF Len(prefix) > 0 /\ last = "*"
          /\ (prefix[Len(prefix)] # ":" \/ prefix[Len(prefix)] # "/")
       THEN FALSE
       ELSE ~ContainsAny(prefix, {"*", "?"})

ValidateScopeNoPrefixCheck(s) ==
    LET prefix == SubSeq(s, 1, Len(s) - 1)
        last == s[Len(s)]
    IN IF Len(prefix) > 0 /\ last = "*"
          /\ prefix[Len(prefix)] # ":" /\ prefix[Len(prefix)] # "/"
       THEN FALSE
       ELSE TRUE

\* ValidateScope on a non-empty string.
ValidateScope(s) ==
    LET prefix == SubSeq(s, 1, Len(s) - 1)
        last == s[Len(s)]
    IN IF Len(prefix) > 0 /\ last = "*"
          /\ prefix[Len(prefix)] # ":" /\ prefix[Len(prefix)] # "/"
       THEN FALSE
       ELSE ~ContainsAny(prefix, {"*", "?"})

ValidateScopeOutcome(s) ==
    IF ValidateScopePanics(s) THEN "panic"
    ELSE IF ValidateScope(s) THEN "true" ELSE "false"

ValidateScopeCall ==
    /\ scopeOutcome = "none"
    /\ scopeOutcome' = ValidateScopeOutcome(scope)
    /\ UNCHANGED <<scope, accessVars, permVars, dashVars, graphVars>>

\* The characters a scope may not hold before its end.
Wildcards == {"*", "?"}

EndsInStar(s) == Len(s) >= 1 /\ s[Len(s)] = "*"

\* The character immediately before the final one, for Len(s) >= 2.
BeforeLast(s) == s[Len(s) - 1]

\* C5, as claimed: for a scope ending in '*', ValidateScope returns true if
\* the character before the final '*' is ':' or '/', and false if it is any
\* other character.
C5_AsClaimed ==
    (scopeOutcome # "none" /\ EndsInStar(scope) /\ Len(scope) >= 2) =>
        IF BeforeLast(scope) \in {":", "/"}
        THEN scopeOutcome = "true"
        ELSE scopeOutcome = "false"

\* C5, amended: for a scope ending in '*' with a character before it, if
\* that character is ':' or '/' then ValidateScope returns true exactly when
\* no '*' or '?' occurs before the final '*'; if it is any other character,
\* ValidateScope returns false.
C5_TrailingWildcard ==
    (scopeOutcome # "none" /\ EndsInStar(scope) /\ Len(scope) >= 2) =>
        IF BeforeLast(scope) \in {":", "/"}
        THEN scopeOutcome =
                IF \E i \in 1..(Len(scope) - 1) : scope[i] \in Wildcards
                THEN "false" ELSE "true"
        ELSE scopeOutcome = "false"

C5_Witness ==
    /\ scope = <<"a", ":", "*">>
    /\ scopeOutcome = "true"

\* C6, as claimed: every scope ValidateScope accepts holds no '?' anywhere
\* and '*' at most once, only as its final character and only immediately
\* preceded by ':' or '/'.
C6_AsClaimed ==
    scopeOutcome = "true" =>
        /\ \A i \in 1..Len(scope) : scope[i] # "?"
        /\ \A i \in 1..Len(scope) : scope[i] = "*" =>
            /\ i = Len(scope)
            /\ i >= 2
            /\ scope[i - 1] \in {":", "/"}

\* C6, amended: every scope ValidateScope accepts holds no '*' and no '?'
\* before its final character, and if it ends in '*' and is longer than one
\* character, that '*' is immediately preceded by ':' or '/'.
C6_AcceptedScopeShape ==
    scopeOutcome = "true" =>
        /\ \A i \in 1..(Len(scope) - 1) : scope[i] \notin Wildcards
        /\ (EndsInStar(scope) /\ Len(scope) >= 2)
            => BeforeLast(scope) \in {":", "/"}

C6_Witness ==
    /\ scope = <<"a", "/", "*">>
    /\ scopeOutcome = "true"

\* C7: ValidateScope of the empty string reports it invalid and does not
\* index past the bounds of the string.
C7_EmptyScopeInvalid ==
    (scopeOutcome # "none" /\ Len(scope) = 0) => scopeOutcome = "false"

\* C8: a scope holding '*' or '?' at a position before its final character
\* is rejected, whatever its final character.
C8_EmbeddedWildcardRejected ==
    (scopeOutcome # "none"
        /\ \E i \in 1..(Len(scope) - 1) : scope[i] \in Wildcards)
    => scopeOutcome = "false"

C8_Witness ==
    /\ scope = <<"a", "?", ":", "*">>
    /\ scopeOutcome = "false"

(***************************************************************************)
(* BuildPermissionsMap                                                      *)
(***************************************************************************)
Actions == {"A", "B", "C"}
PermScopes == {"X", "Y"}
Permissions == [Action : Actions, Scope : PermScopes]
PermissionLists == SeqsUpTo(Permissions, MaxPerms)

EmptyMap == [k \in {} |-> TRUE]

\* permissionsMap[key] = true
MapSet(m, key) == [k \in DOMAIN m \cup {key} |-> IF k = key THEN TRUE ELSE m[k]]

RECURSIVE BuildLoop(_, _, _)
BuildLoop(perms, i, m) ==
    IF i > Len(perms) THEN m
    ELSE BuildLoop(perms, i + 1, MapSet(m, perms[i].Action))

BuildPermissionsMapByScope(perms) ==
    LET RECURSIVE loop(_, _)
        loop(i, m) == IF i > Len(perms) THEN m
                      ELSE loop(i + 1, MapSet(m, perms[i].Scope))
    IN loop(1, EmptyMap)

BuildPermissionsMap(perms) == BuildLoop(perms, 1, EmptyMap)

BuildPermissionsMapCall ==
    /\ ~mapBuilt
    /\ permissionsMap' = BuildPermissionsMap(permissions)
    /\ mapBuilt' = TRUE
    /\ UNCHANGED <<permissions, accessVars, scopeVars, dashVars, graphVars>>

\* C9: the map BuildPermissionsMap returns has as its keys exactly the
\* distinct Action values of the list, each mapped to true; scopes and
\* duplicates have no influence (the map is the one of the list's actions
\* taken once each under one scope), and the empty list gives the empty map.
C9_PermissionsMapKeys ==
    mapBuilt =>
        /\ DOMAIN permissionsMap = {permissions[i].Action : i \in 1..Len(permissions)}
        /\ \A k \in DOMAIN permissionsMap : permissionsMap[k] = TRUE
        /\ \A other \in PermissionLists :
            {other[i].Action : i \in 1..Len(other)}
                = {permissions[i].Action : i \in 1..Len(permissions)}
            => BuildPermissionsMap(other) = permissionsMap
        /\ (permissions = <<>> => permissionsMap = EmptyMap)

C9_Witness ==
    /\ mapBuilt
    /\ permissions = << [Action |-> "A", Scope |-> "X"],
                        [Action |-> "A", Scope |-> "Y"],
                        [Action |-> "B", Scope |-> "X"] >>
    /\ DOMAIN permissionsMap = {"A", "B"}
    /\ permissionsMap["A"] /\ permissionsMap["B"]

(***************************************************************************)
(* Dashboard handlers (pkg/api/dashboard.go)                                *)
(*                                                                         *)
(* A handler is modelled by the set of its runs: one run for each way the  *)
(* guardian and the bus handlers it calls can answer. A run is the         *)
(* Response returned and the checks and dispatches made, in order.         *)
(***************************************************************************)
BusError == "BusError"
GuardianError == "GuardianError"

Contexts == [OrgId : 1..MaxOrgId, UserId : 1..MaxUserId, IsSignedIn : BOOLEAN]

NoContext == [OrgId |-> 0, UserId |-> 0, IsSignedIn |-> FALSE]

\* dash.Data, a simplejson document: the fields the handlers read or set.
DashData(id, title, version) == [id |-> id, title |-> title, version |-> version]

\* Data.Set("version", v)
DataSetVersion(data, v) == [data EXCEPT !.version = v]

\* m.Dashboard as GetDashboardQuery returns it: the fields the handlers
\* read. HasAcl and IsFolder are left out: they go to the guardian and to
\* the meta of the response only. dash.Data may hold a stale version.
Dashboards ==
    { d \in { [Id |-> id, Version |-> v, Title |-> "T", ParentId |-> p,
               UpdatedBy |-> u, CreatedBy |-> cr, Data |-> DashData(id, "T", dv)] :
                id \in 1..MaxDashId, v \in 1..MaxVersion, p \in 0..1,
                u \in 0..1, cr \in 0..1, dv \in 0..MaxVersion } :
        d.Data.version \in {0, d.Version} }

\* The dashboards a handler that reads only Id, Version and Title may find.
CoreDashboards ==
    { d \in Dashboards : d.ParentId = 0 /\ d.UpdatedBy = 0 /\ d.CreatedBy = 0
                         /\ d.Data.version = d.Version }

NoDash ==
    [Id |-> 0, Version |-> 0, Title |-> "", ParentId |-> 0,
     UpdatedBy |-> 0, CreatedBy |-> 0, Data |-> DashData(0, "", 0)]

\* What a guardian check (CanView, CanEdit, CanSave) returns: (bool, error).
GuardianOutcomes == [canDo : BOOLEAN, err : {Nil, GuardianError}]

GuardianPassedIgnoresError(g) == g.canDo

\* if canSave, err := guardian.CanSave(); err != nil || !canSave { return ... }
GuardianPassed(g) == ~(g.err # Nil \/ ~g.canDo)

GuardEv(check, dashId, g) ==
    [kind |-> "guardian", name |-> check, arg |-> [Id |-> dashId],
     canDo |-> g.canDo, err |-> g.err]

\* bus.Dispatch(&msg) and the error it returned.
DispatchEv(name, arg, err) ==
    [kind |-> "dispatch", name |-> name, arg |-> arg, canDo |-> FALSE, err |-> err]

NoArg == [Id |-> 0]

ApiError(status, message) ==
    [status |-> status, kind |-> "error", data |-> [message |-> message]]

Json(status, kind, data) == [status |-> status, kind |-> kind, data |-> data]

NoResponse == [status |-> 0, kind |-> "none", data |-> [message |-> ""]]

Run(rsp, evs) == [response |-> rsp, events |-> evs]

dashboardGuardianResponse(err) ==
    IF err # Nil
    THEN ApiError(500, "Error while checking dashboard permissions")
    ELSE ApiError(403, "Access denied to this dashboard")

\* getDashboardHelper(orgId, slug, id): the dashboard found, or a 404. A
\* lookup by id (id > 0) finds the dashboard of that id. The query dispatched
\* holds its Result once it succeeded; the history keeps the Id and Version
\* of the row found.
getDashboardHelper(orgId, id, found) ==
    { [dash |-> NoDash, rsp |-> ApiError(404, "Dashboard not found"),
       events |-> <<DispatchEv("GetDashboardQuery", [Id |-> id], BusError)>>] }
    \cup
    { [dash |-> d, rsp |-> NoResponse,
       events |-> <<DispatchEv("GetDashboardQuery", [Id |-> id, Result |-> [Id |-> d.Id, Version |-> d.Version]], Nil)>>] :
        d \in {x \in found : id = 0 \/ x.Id = id} }

\* isDashboardStarredByUser(c, dashId)
isDashboardStarredByUser(c, dashId) ==
    IF ~c.IsSignedIn
    THEN {[result |-> FALSE, err |-> Nil, events |-> <<>>]}
    ELSE { [result |-> FALSE, err |-> BusError,
            events |-> <<DispatchEv("IsStarredByUserQuery", [Id |-> dashId], BusError)>>] }
         \cup
         { [result |-> b, err |-> Nil,
            events |-> <<DispatchEv("IsStarredByUserQuery", [Id |-> dashId], Nil)>>] :
            b \in BOOLEAN }

LoginOf(userId) == <<"login", userId>>

\* getUserLogin(userId)
getUserLogin(userId) ==
    { [login |-> <<"Anonymous">>,
       events |-> <<DispatchEv("GetUserByIdQuery", [Id |-> userId], BusError)>>],
      [login |-> LoginOf(userId),
       events |-> <<DispatchEv("GetUserByIdQuery", [Id |-> userId], Nil)>>] }

\* updater := "Anonymous"; if dash.UpdatedBy > 0 { updater = getUserLogin(...) }
LoginIfSet(userId) ==
    IF userId > 0 THEN getUserLogin(userId)
    ELSE {[login |-> <<"Anonymous">>, events |-> <<>>]}

\* The folder title lookup of GetDashboard.
FolderLookup(dash) ==
    IF dash.ParentId > 0
    THEN { [title |-> "", err |-> BusError,
            events |-> <<DispatchEv("GetDashboardQuery", [Id |-> dash.ParentId], BusError)>>],
           [title |-> "Folder", err |-> Nil,
            events |-> <<DispatchEv("GetDashboardQuery", [Id |-> dash.ParentId], Nil)>>] }
    ELSE {[title |-> "Root", err |-> Nil, events |-> <<>>]}

\* GetDashboard from the CanEdit check on: the guardian let the caller view.
GetDashboardAfterGuardian(c, dash, evs) ==
    UNION {
        LET ev1 == evs \o <<GuardEv("CanEdit", dash.Id, ge),
                            GuardEv("CanSave", dash.Id, gs)>> \o st.events
        IN IF st.err # Nil
           THEN {Run(ApiError(500, "Error while checking if dashboard was starred by user"), ev1)}
           ELSE UNION {
               LET ev2 == ev1 \o up.events \o cr.events \o fo.events
                   meta == [IsStarred |-> st.result, CanStar |-> c.IsSignedIn,
                            CanSave |-> gs.canDo, CanEdit |-> ge.canDo,
                            UpdatedBy |-> up.login, CreatedBy |-> cr.login,
                            Version |-> dash.Version, FolderId |-> dash.ParentId,
                            FolderTitle |-> fo.title]
               IN IF fo.err # Nil
                  THEN {Run(ApiError(500, "Dashboard folder could not be read"), ev2)}
                  ELSE {Run(Json(200, "dashboard",
                                 [Dashboard |-> DataSetVersion(dash.Data, dash.Version),
                                  Meta |-> meta]), ev2)}
               : up \in LoginIfSet(dash.UpdatedBy), cr \in LoginIfSet(dash.CreatedBy),
                 fo \in FolderLookup(dash) }
        : ge \in GuardianOutcomes, gs \in GuardianOutcomes,
          st \in isDashboardStarredByUser(c, dash.Id) }

GetDashboardRuns(c) ==
    UNION {
        IF h.rsp # NoResponse THEN {Run(h.rsp, h.events)}
        ELSE UNION {
            LET ev == Append(h.events, GuardEv("CanView", h.dash.Id, g))
            IN IF ~GuardianPassed(g)
               THEN {Run(dashboardGuardianResponse(g.err), ev)}
               ELSE GetDashboardAfterGuardian(c, h.dash, ev)
            : g \in GuardianOutcomes }
        : h \in getDashboardHelper(c.OrgId, 0, Dashboards) }

DeleteDashboardRuns(c) ==
    UNION {
        IF h.rsp # NoResponse THEN {Run(h.rsp, h.events)}
        ELSE UNION {
            LET ev == Append(h.events, GuardEv("CanSave", h.dash.Id, g))
                cmd == [OrgId |-> c.OrgId, Id |-> h.dash.Id]
            IN IF ~GuardianPassed(g)
               THEN {Run(dashboardGuardianResponse(g.err), ev)}
               ELSE { Run(ApiError(500, "Failed to delete dashboard"),
                          Append(ev, DispatchEv("DeleteDashboardCommand", cmd, BusError))),
                      Run(Json(200, "deleted", [title |-> h.dash.Title]),
                          Append(ev, DispatchEv("DeleteDashboardCommand", cmd, Nil))) }
            : g \in GuardianOutcomes }
        : h \in getDashboardHelper(c.OrgId, 0, CoreDashboards) }

\* m.SaveDashboardCommand as a client posts it. OrgId and UserId are the
\* client's to fill in; PostDashboard overwrites them.
SaveCommands ==
    { [Dashboard |-> DashData(id, t, v), IsFolder |-> f, ParentId |-> p,
       OrgId |-> forged.OrgId, UserId |-> forged.UserId,
       RestoredFrom |-> 0, Message |-> <<>>] :
        id \in 0..MaxDashId, t \in {"", "T"}, v \in 0..MaxVersion,
        f \in BOOLEAN, p \in 0..1,
        forged \in {[OrgId |-> 0, UserId |-> 0],
                    [OrgId |-> MaxOrgId + 1, UserId |-> MaxUserId + 1]} }

\* cmd.GetDashboardModel(): the model of the posted document.
GetDashboardModel(cmd) ==
    [Id |-> cmd.Dashboard.id, Title |-> cmd.Dashboard.title,
     IsFolder |-> cmd.IsFolder, ParentId |-> cmd.ParentId, Data |-> cmd.Dashboard]

\* middleware.QuotaReached(c, "dashboard") and what it returned.
QuotaEv(limitReached, err) ==
    [kind |-> "quota", name |-> "QuotaReached", arg |-> NoArg,
     canDo |-> limitReached, err |-> err]

ErrDashboardWithSameNameExists == "ErrDashboardWithSameNameExists"
ErrDashboardVersionMismatch == "ErrDashboardVersionMismatch"
UpdatePluginDashboardError == "UpdatePluginDashboardError"
ErrDashboardNotFound == "ErrDashboardNotFound"

SaveErrors ==
    {ErrDashboardWithSameNameExists, ErrDashboardVersionMismatch,
     UpdatePluginDashboardError, ErrDashboardNotFound, BusError}

\* The response to a failed SaveDashboardCommand.
SaveErrorResponse(err) ==
    IF err = ErrDashboardWithSameNameExists
    THEN Json(412, "save-failed", [status |-> "name-exists"])
    ELSE IF err = ErrDashboardVersionMismatch
    THEN Json(412, "save-failed", [status |-> "version-mismatch"])
    ELSE IF err = UpdatePluginDashboardError
    THEN Json(412, "save-failed", [status |-> "plugin-dashboard"])
    ELSE IF err = ErrDashboardNotFound
    THEN Json(404, "save-failed", [status |-> "not-found"])
    ELSE ApiError(500, "Failed to save dashboard")

\* cmd.Result of a SaveDashboardCommand that succeeded.
SaveResults(dash) ==
    [Id : IF dash.Id > 0 THEN {dash.Id} ELSE 1..MaxDashId,
     Version : 1..MaxVersion, Slug : {"t"}]

\* PostDashboard from ValidateDashboardAlertsCommand on.
PostDashboardSave(c, cmd, dash, evs) ==
    LET alertArg == [OrgId |-> c.OrgId, UserId |-> c.UserId, Id |-> dash.Id]
        evBad == Append(evs, DispatchEv("ValidateDashboardAlertsCommand", alertArg, BusError))
        ev1 == Append(evs, DispatchEv("ValidateDashboardAlertsCommand", alertArg, Nil))
    IN {Run(ApiError(500, "Invalid alert data. Cannot save dashboard"), evBad)}
       \cup
       { Run(SaveErrorResponse(err), Append(ev1, DispatchEv("SaveDashboardCommand", cmd, err))) :
            err \in SaveErrors }
       \cup
       UNION {
           LET ev2 == Append(ev1, DispatchEv("SaveDashboardCommand", cmd, Nil))
               updArg == [OrgId |-> c.OrgId, UserId |-> c.UserId, Id |-> res.Id]
           IN { Run(ApiError(500, "Failed to save alerts"),
                    Append(ev2, DispatchEv("UpdateDashboardAlertsCommand", updArg, BusError))),
                Run(Json(200, "saved",
                         [status |-> "success", slug |-> res.Slug,
                          version |-> res.Version, id |-> res.Id]),
                    Append(ev2, DispatchEv("UpdateDashboardAlertsCommand", updArg, Nil))) }
           : res \in SaveResults(dash) }

PostDashboardChecksQuotaAlways(c, cmd, dash, evs) ==
    IF dash.IsFolder /\ dash.ParentId > 0
    THEN {Run(ApiError(400, "ErrDashboardFolderCannotHaveParent"), evs)}
    ELSE IF dash.Title = ""
    THEN {Run(ApiError(400, "ErrDashboardTitleEmpty"), evs)}
    ELSE {Run(ApiError(500, "failed to get quota"), Append(evs, QuotaEv(FALSE, BusError))),
          Run(ApiError(403, "Quota reached"), Append(evs, QuotaEv(TRUE, Nil)))}
         \cup PostDashboardSave(c, cmd, dash, Append(evs, QuotaEv(FALSE, Nil)))

\* PostDashboard after the guardian let the caller save: the folder, title
\* and quota checks.
PostDashboardChecks(c, cmd, dash, evs) ==
    IF dash.IsFolder /\ dash.ParentId > 0
    THEN {Run(ApiError(400, "ErrDashboardFolderCannotHaveParent"), evs)}
    ELSE IF dash.Title = ""
    THEN {Run(ApiError(400, "ErrDashboardTitleEmpty"), evs)}
    ELSE IF dash.Id = 0
    THEN {Run(ApiError(500, "failed to get quota"), Append(evs, QuotaEv(FALSE, BusError))),
          Run(ApiError(403, "Quota reached"), Append(evs, QuotaEv(TRUE, Nil)))}
         \cup PostDashboardSave(c, cmd, dash, Append(evs, QuotaEv(FALSE, Nil)))
    ELSE PostDashboardSave(c, cmd, dash, evs)

\* The lookup of the existing dashboard, done only to copy its HasAcl to
\* dash for the guardian to read; a failed lookup is ignored.
ExistingLookup(c, dash) ==
    IF dash.Id > 0
    THEN {h.events : h \in getDashboardHelper(c.OrgId, dash.Id, CoreDashboards)}
    ELSE {<<>>}

\* PostDashboard(c, cmd), entered with the events evs already made.
PostDashboardRuns(c, cmdIn, evs) ==
    LET cmd == [cmdIn EXCEPT !.OrgId = c.OrgId, !.UserId = c.UserId]
        dash == GetDashboardModel(cmd)
    IN UNION {
        LET ev == Append(evs \o look, GuardEv("CanSave", dash.Id, g))
        IN IF ~GuardianPassed(g)
           THEN {Run(dashboardGuardianResponse(g.err), ev)}
           ELSE PostDashboardChecks(c, cmd, dash, ev)
        : look \in ExistingLookup(c, dash), g \in GuardianOutcomes }

\* A row of m.GetDashboardVersionsQuery's result.
VersionRows ==
    [Version : 1..MaxVersion, RestoredFrom : 0..MaxVersion,
     ParentVersion : 0..1, Message : {<<"saved">>}]

\* The lists of rows the query may return: none, one or two.
VersionLists ==
    {<<>>} \cup {<<r>> : r \in VersionRows}
           \cup {<<r1, r2>> : r1 \in VersionRows, r2 \in VersionRows}

\* The body of the loop over query.Result in GetDashboardVersions.
VersionMessage(version) ==
    IF version.RestoredFrom = version.Version
    THEN [version EXCEPT !.Message = <<"Initial save (created by migration)">>]
    ELSE IF version.RestoredFrom > 0
    THEN [version EXCEPT !.Message = <<"Restored from version", version.RestoredFrom>>]
    ELSE IF version.ParentVersion = 0
    THEN [version EXCEPT !.Message = <<"Initial save">>]
    ELSE version

GetDashboardVersionsRuns(c, dashId) ==
    UNION {
        LET ev == <<GuardEv("CanSave", dashId, g)>>
            arg == [OrgId |-> c.OrgId, Id |-> dashId]
        IN IF ~GuardianPassed(g)
           THEN {Run(dashboardGuardianResponse(g.err), ev)}
           ELSE {Run(ApiError(404, "No versions found for dashboardId"),
                     Append(ev, DispatchEv("GetDashboardVersionsQuery", arg, BusError)))}
                \cup
                { Run(Json(200, "versions",
                           [versions |-> [i \in 1..Len(rows) |-> VersionMessage(rows[i])]]),
                      Append(ev, DispatchEv("GetDashboardVersionsQuery", arg, Nil))) :
                    rows \in VersionLists }
        : g \in GuardianOutcomes }

\* m.DashboardVersion as GetDashboardVersionQuery returns it for a dashboard
\* and a version number: the version of that number, whatever its data.
DashboardVersions(version) ==
    { [Version |-> version, CreatedBy |-> cr, Data |-> DashData(id, t, version)] :
        cr \in 0..1, id \in 0..MaxDashId, t \in {"", "T"} }

GetDashboardVersionRuns(c, dashId, version) ==
    UNION {
        LET ev == <<GuardEv("CanSave", dashId, g)>>
            arg == [OrgId |-> c.OrgId, Id |-> dashId, Version |-> version]
        IN IF ~GuardianPassed(g)
           THEN {Run(dashboardGuardianResponse(g.err), ev)}
           ELSE {Run(ApiError(500, "Dashboard version not found for dashboardId"),
                     Append(ev, DispatchEv("GetDashboardVersionQuery", arg, BusError)))}
                \cup
                UNION {
                    { Run(Json(200, "version",
                               [DashboardVersion |-> dv, CreatedBy |-> cr.login]),
                          Append(ev, DispatchEv("GetDashboardVersionQuery", arg, Nil))
                            \o cr.events) :
                        cr \in LoginIfSet(dv.CreatedBy) }
                    : dv \in DashboardVersions(version) }
        : g \in GuardianOutcomes }

\* The versions RestoreDashboardVersion may find: it reads Version and Data.
RestorableVersions(version) == {dv \in DashboardVersions(version) : dv.CreatedBy = 0}

RestoreSaveCommandKeepsVersion(c, dash, version) ==
    [Dashboard |-> version.Data,
     IsFolder |-> FALSE, ParentId |-> 0,
     OrgId |-> c.OrgId, UserId |-> c.UserId,
     RestoredFrom |-> version.Version,
     Message |-> <<"Restored from version", version.Version>>]

\* The SaveDashboardCommand RestoreDashboardVersion builds.
RestoreSaveCommand(c, dash, version) ==
    [Dashboard |-> DataSetVersion(version.Data, dash.Version),
     IsFolder |-> FALSE, ParentId |-> 0,
     OrgId |-> c.OrgId, UserId |-> c.UserId,
     RestoredFrom |-> version.Version,
     Message |-> <<"Restored from version", version.Version>>]

RestoreDashboardVersionRuns(c, dashId, apiVersion) ==
    UNION {
        IF h.rsp # NoResponse THEN {Run(h.rsp, h.events)}
        ELSE UNION {
            LET ev == Append(h.events, GuardEv("CanSave", h.dash.Id, g))
                arg == [OrgId |-> c.OrgId, Id |-> h.dash.Id, Version |-> apiVersion]
            IN IF ~GuardianPassed(g)
               THEN {Run(dashboardGuardianResponse(g.err), ev)}
               ELSE {Run(ApiError(404, "Dashboard version not found"),
                         Append(ev, DispatchEv("GetDashboardVersionQuery", arg, BusError)))}
                    \cup
                    UNION {
                        PostDashboardRuns(c, RestoreSaveCommand(c, h.dash, version),
                            Append(ev, DispatchEv("GetDashboardVersionQuery",
                                [OrgId |-> c.OrgId, Id |-> h.dash.Id,
                                 Version |-> apiVersion, Result |-> version], Nil)))
                        : version \in RestorableVersions(apiVersion) }
            : g \in GuardianOutcomes }
        : h \in getDashboardHelper(c.OrgId, dashId, CoreDashboards) }

\* The handler returns: the run it made is the request's.
Respond(name, run) ==
    /\ response' = run.response
    /\ events' = run.events
    /\ handler' = name
    /\ UNCHANGED <<ctx, accessVars, scopeVars, permVars, graphVars>>

GetDashboard ==
    /\ handler = "none"
    /\ \E run \in GetDashboardRuns(ctx) : Respond("GetDashboard", run)

DeleteDashboard ==
    /\ handler = "none"
    /\ \E run \in DeleteDashboardRuns(ctx) : Respond("DeleteDashboard", run)

PostDashboard ==
    /\ handler = "none"
    /\ \E cmd \in SaveCommands :
        \E run \in PostDashboardRuns(ctx, cmd, <<>>) : Respond("PostDashboard", run)

GetDashboardVersions ==
    /\ handler = "none"
    /\ \E dashId \in 1..MaxDashId :
        \E run \in GetDashboardVersionsRuns(ctx, dashId) :
            Respond("GetDashboardVersions", run)

GetDashboardVersion ==
    /\ handler = "none"
    /\ \E dashId \in 1..MaxDashId, version \in 1..MaxVersion :
        \E run \in GetDashboardVersionRuns(ctx, dashId, version) :
            Respond("GetDashboardVersion", run)

RestoreDashboardVersion ==
    /\ handler = "none"
    /\ \E dashId \in 1..MaxDashId, version \in 1..MaxVersion :
        \E run \in RestoreDashboardVersionRuns(ctx, dashId, version) :
            Respond("RestoreDashboardVersion", run)

\* The guardian check that gates a handler: CanView in GetDashboard (its
\* later CanEdit and CanSave only fill the meta), CanSave in the others.
GateCheck(h) == IF h = "GetDashboard" THEN "CanView" ELSE "CanSave"

IsGate(e) == e.kind = "guardian" /\ e.name = GateCheck(handler)

GateRefused(e) == IsGate(e) /\ ~(e.canDo /\ e.err = Nil)

Dispatched(name) ==
    \E i \in 1..Len(events) : events[i].kind = "dispatch" /\ events[i].name = name

ReturnsData == response.kind \in {"dashboard", "deleted", "saved", "versions", "version"}

\* C10: in every dashboard handler that consults the guardian, a check that
\* returns an error gives a 500 and one that returns false without error a
\* 403, and the handler stops there; no DeleteDashboardCommand or
\* SaveDashboardCommand is dispatched and no dashboard or version data is
\* returned unless the guardian check returned true without error.
C10_GuardianGate ==
    handler # "none" =>
        /\ \A i \in 1..Len(events) : GateRefused(events[i]) =>
            /\ response.kind = "error"
            /\ response.status = IF events[i].err # Nil THEN 500 ELSE 403
            /\ i = Len(events)
        /\ (Dispatched("DeleteDashboardCommand") \/ Dispatched("SaveDashboardCommand")
                \/ ReturnsData)
            => /\ \E i \in 1..Len(events) : IsGate(events[i])
               /\ \A i \in 1..Len(events) :
                    IsGate(events[i]) => (events[i].canDo /\ events[i].err = Nil)

\* RestoreDashboardVersion's own check passes and PostDashboard's fails.
C10_Witness ==
    /\ handler = "RestoreDashboardVersion"
    /\ Len(events) = 5
    /\ events[2].kind = "guardian" /\ events[2].canDo /\ events[2].err = Nil
    /\ events[5].kind = "guardian" /\ events[5].canDo /\ events[5].err = GuardianError
    /\ response.status = 500
    /\ ~Dispatched("SaveDashboardCommand")

\* PostDashboard runs in PostDashboard requests and, called by
\* RestoreDashboardVersion, in restore requests.
RunsPostDashboard == handler \in {"PostDashboard", "RestoreDashboardVersion"}

IsDispatch(e, name) == e.kind = "dispatch" /\ e.name = name

IsQuota(e) == e.kind = "quota"

\* The last CanSave check before position i, 0 if there is none.
LastCanSaveBefore(i) ==
    LET S == {j \in 1..(i - 1) : events[j].kind = "guardian" /\ events[j].name = "CanSave"}
    IN IF S = {} THEN 0 ELSE CHOOSE j \in S : \A k \in S : k <= j

\* The steps that precede the SaveDashboardCommand at position i: CanSave
\* passed, the model is no folder with a parent and has a title, the quota
\* (for a new dashboard only) was neither in error nor reached, and
\* ValidateDashboardAlertsCommand succeeded, in this order and nothing else.
SavePrecededByChecks(i) ==
    LET dash == GetDashboardModel(events[i].arg)
        g == LastCanSaveBefore(i)
    IN /\ g > 0
       /\ events[g].canDo /\ events[g].err = Nil
       /\ events[g].arg.Id = dash.Id
       /\ ~(dash.IsFolder /\ dash.ParentId > 0)
       /\ dash.Title # ""
       /\ IF dash.Id = 0
          THEN /\ i = g + 3
               /\ IsQuota(events[g + 1])
               /\ ~events[g + 1].canDo /\ events[g + 1].err = Nil
          ELSE i = g + 2
       /\ IsDispatch(events[i - 1], "ValidateDashboardAlertsCommand")
       /\ events[i - 1].err = Nil

\* A step of PostDashboard that failed: a refused CanSave, a quota in error
\* or reached, or a failed validation, save or alerts update.
PostStepFailed(e) ==
    \/ e.kind = "guardian" /\ e.name = "CanSave" /\ ~(e.canDo /\ e.err = Nil)
    \/ IsQuota(e) /\ (e.canDo \/ e.err # Nil)
    \/ /\ e.kind = "dispatch"
       /\ e.name \in {"ValidateDashboardAlertsCommand", "SaveDashboardCommand",
                      "UpdateDashboardAlertsCommand"}
       /\ e.err # Nil

\* C11: PostDashboard stops at the first step that fails; it dispatches the
\* SaveDashboardCommand only after CanSave passed, the folder and title
\* checks, the quota check (made only when dash.Id = 0) and
\* ValidateDashboardAlertsCommand; it dispatches UpdateDashboardAlertsCommand
\* only right after a SaveDashboardCommand that succeeded; it answers 200
\* "success" only when the alerts update succeeded; and for dash.Id > 0 the
\* quota is never consulted.
C11_PostDashboardOrder ==
    RunsPostDashboard =>
        /\ \A i \in 1..Len(events) : PostStepFailed(events[i]) =>
            /\ i = Len(events)
            /\ response.kind # "saved"
        /\ \A i \in 1..Len(events) : IsDispatch(events[i], "SaveDashboardCommand") =>
            SavePrecededByChecks(i)
        /\ \A i \in 1..Len(events) : IsDispatch(events[i], "UpdateDashboardAlertsCommand") =>
            /\ i > 1
            /\ IsDispatch(events[i - 1], "SaveDashboardCommand")
            /\ events[i - 1].err = Nil
        /\ response.kind = "saved" =>
            /\ response.status = 200
            /\ Len(events) > 0
            /\ IsDispatch(events[Len(events)], "UpdateDashboardAlertsCommand")
            /\ events[Len(events)].err = Nil
        /\ \A i \in 1..Len(events) : IsQuota(events[i]) =>
            /\ LastCanSaveBefore(i) = i - 1
            /\ events[i - 1].arg.Id = 0

\* A new dashboard is saved: CanSave, quota, validate, save, alerts update.
C11_Witness ==
    /\ handler = "PostDashboard"
    /\ Len(events) = 5
    /\ events[1].kind = "guardian" /\ events[1].arg.Id = 0
    /\ IsQuota(events[2])
    /\ IsDispatch(events[3], "ValidateDashboardAlertsCommand")
    /\ IsDispatch(events[4], "SaveDashboardCommand")
    /\ IsDispatch(events[5], "UpdateDashboardAlertsCommand")
    /\ response.status = 200 /\ response.kind = "saved"

\* The lookup of the dashboard, the first step of RestoreDashboardVersion.
RestoreLookup == events[1]

\* The positions of the GetDashboardVersionQuery of the request.
VersionQueries == {i \in 1..Len(events) : IsDispatch(events[i], "GetDashboardVersionQuery")}

\* C12: in RestoreDashboardVersion a failed dashboard lookup or version
\* query answers 404 and no save is dispatched; a save that is dispatched
\* carries the data of the version asked for with "version" set to the
\* version of the dashboard found, RestoredFrom the version number asked for,
\* OrgId and UserId of the caller, and it went through the checks of
\* PostDashboard, a second CanSave among them.
C12_RestoreDashboardVersion ==
    handler = "RestoreDashboardVersion" =>
        /\ Len(events) > 0
        /\ IsDispatch(RestoreLookup, "GetDashboardQuery")
        /\ RestoreLookup.err # Nil =>
            /\ response.status = 404
            /\ Len(events) = 1
        /\ \A i \in VersionQueries : events[i].err # Nil =>
            /\ response.status = 404
            /\ ~Dispatched("SaveDashboardCommand")
        /\ \A i \in 1..Len(events) : IsDispatch(events[i], "SaveDashboardCommand") =>
            /\ RestoreLookup.err = Nil
            /\ \E q \in VersionQueries :
                LET dash == RestoreLookup.arg.Result
                    query == events[q].arg
                    cmd == events[i].arg
                    g == LastCanSaveBefore(i)
                IN /\ q < i /\ events[q].err = Nil
                   /\ query.Id = dash.Id
                   /\ cmd.Dashboard = [query.Result.Data EXCEPT !.version = dash.Version]
                   /\ cmd.RestoredFrom = query.Version
                   /\ cmd.OrgId = ctx.OrgId /\ cmd.UserId = ctx.UserId
                   /\ SavePrecededByChecks(i)
                   /\ g > q
                   /\ LastCanSaveBefore(q) \in 2..(q - 1)
                   /\ GuardianPassed([canDo |-> events[LastCanSaveBefore(q)].canDo,
                                      err |-> events[LastCanSaveBefore(q)].err])

\* An older version is restored: the save carries the current version number
\* of the dashboard, not the one stored with the version's data.
C12_Witness ==
    /\ handler = "RestoreDashboardVersion"
    /\ response.status = 200 /\ response.kind = "saved"
    /\ \E i \in 1..Len(events), q \in VersionQueries :
        /\ IsDispatch(events[i], "SaveDashboardCommand")
        /\ events[q].err = Nil
        /\ events[i].arg.RestoredFrom = events[q].arg.Version
        /\ events[q].arg.Result.Data.version # RestoreLookup.arg.Result.Version
        /\ events[i].arg.Dashboard.version = RestoreLookup.arg.Result.Version

(***************************************************************************)
(* GraphNG                                                                  *)
(***************************************************************************)
FieldTypes == {"time", "number", "string"}

\* alignedFrame.fields, by type; the data is not empty.
Frames == SeqsUpTo(FieldTypes, MaxFields) \ {<<>>}

NoFrame == <<>>

\* The legend prop: undefined, or LegendOptions.
NoLegend == [present |-> FALSE, displayMode |-> "undefined", placement |-> "undefined"]

LegendOptions ==
    [present : {TRUE}, displayMode : {"list", "table", "hidden"},
     placement : {"under", "right"}]

Legends == {NoLegend} \cup LegendOptions

\* legend && legend.displayMode !== LegendDisplayMode.Hidden, as a truth value
LegendVisible(l) == l.present /\ l.displayMode # "hidden"

\* getTimeField(alignedFrame).timeIndex: the first time field, 0 for undefined
GetTimeField(f) ==
    LET T == {i \in 1..Len(f) : f[i] = "time"}
    IN IF T = {} THEN 0 ELSE CHOOSE i \in T : \A j \in T : i <= j

\* timeIndex, the first field when the frame has no time field
TimeIndex(f) == IF GetTimeField(f) = 0 THEN 1 ELSE GetTimeField(f)

\* The fields the loop plots as series: numbers other than the x field.
RECURSIVE SeriesFrom(_, _)
SeriesFrom(f, i) ==
    IF i > Len(f) THEN <<>>
    ELSE IF i = TimeIndex(f) \/ f[i] # "number" THEN SeriesFrom(f, i + 1)
    ELSE <<i>> \o SeriesFrom(f, i + 1)

NumericSeries(f) == SeriesFrom(f, 1)

\* legendItems as the config callback builds them: one for each series if
\* hasLegend.current holds.
LegendItems(f, hasLegendCurrent) ==
    IF hasLegendCurrent THEN NumericSeries(f) ELSE <<>>

\* useRevision(alignedFrame, compareDataFrameStructures): the revision
\* changes when the structure of the frame does.
RevisionChanged(prev, next) == prev # next

NoOutput == [legend |-> FALSE, placement |-> "undefined", displayMode |-> "undefined",
             items |-> <<>>, error |-> "none"]

\* The legend element of a render. The condition tests the ref hasLegend, an
\* object, and so the items only; legend!.placement throws a TypeError when
\* legend is undefined.
LegendElement(l, items) ==
    IF Len(items) > 0
    THEN IF l.present
         THEN [legend |-> TRUE, placement |-> l.placement,
               displayMode |-> l.displayMode, items |-> items, error |-> "none"]
         ELSE [NoOutput EXCEPT !.error = "TypeError"]
    ELSE NoOutput

\* One call of the component function with props l and f. useRef keeps the
\* value of the first render; the config callback runs on the first render
\* and when configRev changed.
RenderGraphNG(first, l, f) ==
    LET ref == IF first THEN LegendVisible(l) ELSE hasLegend
        items == IF first \/ RevisionChanged(frame, f)
                 THEN LegendItems(f, ref) ELSE legendItemsRef
    IN /\ renders' = renders + 1
       /\ legend' = l
       /\ frame' = f
       /\ hasLegend' = ref
       /\ legendItemsRef' = items
       /\ output' = LegendElement(l, items)
       /\ UNCHANGED <<accessVars, scopeVars, permVars, dashVars>>

\* The first render of a mounted GraphNG.
Mount ==
    /\ renders = 0
    /\ \E l \in Legends, f \in Frames : RenderGraphNG(TRUE, l, f)

\* A later render, with new props; a render that threw unmounts the component.
Rerender ==
    /\ renders \in 1..(MaxRenders - 1)
    /\ output.error = "none"
    /\ \E l \in Legends, f \in Frames : RenderGraphNG(FALSE, l, f)

\* C13: on every render with data the legend element is rendered exactly
\* when the legend option of that render is present, not Hidden, and a
\* numeric series was plotted; a render without a visible legend option
\* renders no legend and does not dereference the option.
C13_LegendFollowsOption ==
    renders > 0 =>
        /\ output.legend <=> (LegendVisible(legend) /\ NumericSeries(frame) # <<>>)
        /\ ~LegendVisible(legend) => (~output.legend /\ output.error = "none")

(***************************************************************************)
(* Specifications                                                           *)
(***************************************************************************)
AccessIdle ==
    /\ acDisabled = FALSE
    /\ signedInUser = NoUser
    /\ origUser = NoUser
    /\ call = NoCall
    /\ helpersCalled = <<>>

ScopeIdle ==
    /\ scope = <<>>
    /\ scopeOutcome = "none"

PermIdle ==
    /\ permissions = <<>>
    /\ permissionsMap = EmptyMap
    /\ mapBuilt = FALSE

DashIdle ==
    /\ ctx = NoContext
    /\ handler = "none"
    /\ response = NoResponse
    /\ events = <<>>

GraphIdle ==
    /\ renders = 0
    /\ legend = NoLegend
    /\ frame = NoFrame
    /\ hasLegend = FALSE
    /\ legendItemsRef = <<>>
    /\ output = NoOutput

InitAccess ==
    /\ acDisabled \in BOOLEAN
    /\ \E u \in SignedInUsers :
        /\ signedInUser = u
        /\ origUser = u
    /\ call = NoCall
    /\ helpersCalled = <<>>
    /\ ScopeIdle
    /\ PermIdle
    /\ DashIdle
    /\ GraphIdle

NextAccess == HasGlobalAccess \/ HasAccess

SpecAccess == InitAccess /\ [][NextAccess]_vars

InitScope ==
    /\ scope \in Scopes
    /\ scopeOutcome = "none"
    /\ AccessIdle
    /\ PermIdle
    /\ DashIdle
    /\ GraphIdle

NextScopeStep == ValidateScopeCall

SpecScope == InitScope /\ [][NextScopeStep]_vars

InitPerm ==
    /\ permissions \in PermissionLists
    /\ permissionsMap = EmptyMap
    /\ mapBuilt = FALSE
    /\ AccessIdle
    /\ ScopeIdle
    /\ DashIdle
    /\ GraphIdle

NextPerm == BuildPermissionsMapCall

SpecPerm == InitPerm /\ [][NextPerm]_vars

InitDash ==
    /\ ctx \in Contexts
    /\ handler = "none"
    /\ response = NoResponse
    /\ events = <<>>
    /\ AccessIdle
    /\ ScopeIdle
    /\ PermIdle
    /\ GraphIdle

NextDash ==
    \/ GetDashboard
    \/ DeleteDashboard
    \/ PostDashboard
    \/ GetDashboardVersions
    \/ GetDashboardVersion
    \/ RestoreDashboardVersion

SpecDash == InitDash /\ [][NextDash]_vars

InitGraph ==
    /\ GraphIdle
    /\ AccessIdle
    /\ ScopeIdle
    /\ PermIdle
    /\ DashIdle

NextGraph == Mount \/ Rerender

SpecGraph == InitGraph /\ [][NextGraph]_vars

====
